---------------------------- MODULE Spec2Model ----------------------------
(***************************************************************************)
(* World Color Survey helpers (wcsHelper.py, wcs_table_helper.py).         *)
(*                                                                         *)
(* A Python str is a sequence of one-character strings, so that indexing,  *)
(* slicing, split, rstrip, int() and float() are computed and not assumed. *)
(* A Python dict is a sequence of <<key, value>> pairs with distinct keys, *)
(* in insertion order (the order Python iterates it in).                   *)
(***************************************************************************)
EXTENDS Integers, Sequences, FiniteSets, TLC

VARIABLES
    fn,               \* the function that was called
    arg,              \* its argument: its type, the text of the file a str names, a DataFrame's rows
    pc,               \* position in the called function
    lines,            \* the local `lines` (result of _read_lines)
    i,                \* number of `lines` the running loop has consumed
    err,              \* the exception raised ("" while none)
    warned,           \* whether 'Warning: No data provided.' was printed
    namingData,       \* readNamingData
    fociData,         \* readFociData
    speakerData,      \* readSpeakerData
    munsell_to_chip,  \* _get_munsell_dicts
    chip_to_munsell,  \* _get_munsell_dicts, get_chip_to_munsell
    chip_to_clab,     \* _get_clab_dict
    chip_to_rgb,      \* _get_rgb_dict, get_chip_to_rgb
    speakerTable,     \* loadSpeakerTable: the rows of the table
    langData,         \* makeModeMap: the selected language's naming data
    allTerms,         \* makeModeMap: chip -> accumulated terms
    modeMap,          \* makeModeMap: chip -> modal term
    firstMap,         \* the mode map of the first makeModeMap call, once it is fed back
    gridData,         \* naming2grid: its argument `data`, a chip -> term dictionary
    term_colors,      \* naming2grid: term -> mean colour
    grid_colors,      \* naming2grid: the rows of the array; the grid given to _grid2img
    img               \* _grid2img: the image, a colour for every <<row, column>>

vars == <<fn, arg, pc, lines, i, err, warned, namingData, fociData, speakerData,
          munsell_to_chip, chip_to_munsell, chip_to_clab, chip_to_rgb,
          speakerTable, langData, allTerms, modeMap, firstMap,
          gridData, term_colors, grid_colors, img>>

gridVars == <<gridData, term_colors, grid_colors, img>>

loaderVars == <<lines, warned, namingData, fociData, speakerData,
                munsell_to_chip, chip_to_munsell, chip_to_clab, chip_to_rgb,
                speakerTable, gridVars>>

modeVars == <<langData, allTerms, modeMap, firstMap, gridVars>>

-----------------------------------------------------------------------------
(* Bounds of the model *)

\* most lines a naming, foci or speaker file holds
MaxLines == 3

\* most lines a chip file holds, most rows a chip DataFrame holds
MaxChipLines == 2

\* most speakers of a language given to makeModeMap
MaxSpeakers == 3

-----------------------------------------------------------------------------
(* Python str *)

TAB == "\t"
NL == "\n"

Digits == {"0", "1", "2", "3", "4", "5", "6", "7", "8", "9"}

DigitChars == <<"0", "1", "2", "3", "4", "5", "6", "7", "8", "9">>

DigitVal(c) ==
    CASE c = "0" -> 0 [] c = "1" -> 1 [] c = "2" -> 2 [] c = "3" -> 3
      [] c = "4" -> 4 [] c = "5" -> 5 [] c = "6" -> 6 [] c = "7" -> 7
      [] c = "8" -> 8 [] c = "9" -> 9

Min(a, b) == IF a < b THEN a ELSE b

\* s[a:b] for 0 <= a <= b: the slice is clipped to the length, it never fails
Slice(s, a, b) == SubSeq(s, a + 1, Min(b, Len(s)))

\* s[a:]
SliceFrom(s, a) == SubSeq(s, a + 1, Len(s))

\* s[7:9]: the two fields after index, R, G, B, l, a, b
LastTwoByPosition(s) == Slice(s, 7, 9)

\* s[-2:]
LastTwo(s) == IF Len(s) <= 2 THEN s ELSE SubSeq(s, Len(s) - 1, Len(s))

RECURSIVE Concat(_)
\* ''.join(parts)
Concat(parts) ==
    IF parts = <<>> THEN <<>> ELSE Head(parts) \o Concat(Tail(parts))

RECURSIVE Join(_, _)
\* sep.join(parts)
Join(parts, sep) ==
    IF parts = <<>> THEN <<>>
    ELSE IF Len(parts) = 1 THEN parts[1]
    ELSE parts[1] \o <<sep>> \o Join(Tail(parts), sep)

RECURSIVE SplitFrom(_, _, _)
\* s.split(sep), given the piece `cur` read so far
SplitFrom(s, sep, cur) ==
    IF s = <<>> THEN <<cur>>
    ELSE IF Head(s) = sep THEN <<cur>> \o SplitFrom(Tail(s), sep, <<>>)
    ELSE SplitFrom(Tail(s), sep, Append(cur, Head(s)))

\* s.split(sep): always at least one piece
Split(s, sep) == SplitFrom(s, sep, <<>>)

RECURSIVE RStrip(_)
\* s.rstrip(): trailing whitespace removed
RStrip(s) ==
    IF s # <<>> /\ s[Len(s)] \in {TAB, NL, " "}
    THEN RStrip(SubSeq(s, 1, Len(s) - 1))
    ELSE s

\* the digits of a numeral without its sign
Unsigned(s) == IF s # <<>> /\ s[1] \in {"-", "+"} THEN Tail(s) ELSE s

Sign(s) == IF s # <<>> /\ s[1] = "-" THEN -1 ELSE 1

RECURSIVE DigitsVal(_, _)
DigitsVal(s, acc) ==
    IF s = <<>> THEN acc ELSE DigitsVal(Tail(s), 10 * acc + DigitVal(Head(s)))

\* whether int(s) succeeds (over the characters the inputs are made of)
IsInt(s) ==
    /\ Unsigned(s) # <<>>
    /\ \A k \in DOMAIN Unsigned(s) : Unsigned(s)[k] \in Digits

\* int(s)
IntOf(s) == Sign(s) * DigitsVal(Unsigned(s), 0)

RECURSIVE NatStr(_)
NatStr(n) ==
    IF n < 10 THEN <<DigitChars[n + 1]>>
    ELSE NatStr(n \div 10) \o <<DigitChars[(n % 10) + 1]>>

\* str(n)
StrOf(n) == IF n < 0 THEN <<"-">> \o NatStr(-n) ELSE NatStr(n)

\* whether float(s) succeeds: digits with at most one point, at least one digit
IsFloat(s) ==
    LET u == Unsigned(s) IN
    /\ \A k \in DOMAIN u : u[k] \in Digits \cup {"."}
    /\ Cardinality({k \in DOMAIN u : u[k] = "."}) <= 1
    /\ \E k \in DOMAIN u : u[k] \in Digits

RECURSIVE Reduce(_, _)
\* n / 10^d with the trailing zeros of the fraction dropped
Reduce(n, d) ==
    IF d > 0 /\ n % 10 = 0 THEN Reduce(n \div 10, d - 1) ELSE <<n, d>>

\* float(s) as the exact decimal <<n, d>> = n / 10^d
FloatOf(s) ==
    LET u == Unsigned(s)
        dot == {k \in DOMAIN u : u[k] = "."}
        p == IF dot = {} THEN Len(u) + 1 ELSE CHOOSE k \in dot : TRUE
        whole == SubSeq(u, 1, p - 1)
        frac == SubSeq(u, p + 1, Len(u))
    IN  Reduce(Sign(s) * DigitsVal(whole \o frac, 0), Len(frac))

-----------------------------------------------------------------------------
(* Python dict, in insertion order *)

HasKey(d, k) == \E n \in DOMAIN d : d[n][1] = k

\* d[k], for a key of d
Get(d, k) == d[CHOOSE n \in DOMAIN d : d[n][1] = k][2]

\* d[k] = v: a new key goes last, a known key keeps its place
Put(d, k, v) ==
    IF HasKey(d, k)
    THEN [n \in DOMAIN d |-> IF d[n][1] = k THEN <<k, v>> ELSE d[n]]
    ELSE Append(d, <<k, v>>)

\* list(d.keys())
KeyList(d) == [n \in DOMAIN d |-> d[n][1]]

\* list(d.values())
ValueList(d) == [n \in DOMAIN d |-> d[n][2]]

KeySet(d) == {d[n][1] : n \in DOMAIN d}

\* d.get(k, default)
GetOr(d, k, default) == IF HasKey(d, k) THEN Get(d, k) ELSE default

-----------------------------------------------------------------------------
(* _read_lines *)

\* text.rstrip().split('\n')
read_lines(text) == Split(RStrip(text), NL)

-----------------------------------------------------------------------------
(* Exceptions *)

NoError == ""
TooFew == "ValueError: not enough values to unpack"
TooMany == "ValueError: too many values to unpack"
BadInt == "ValueError: invalid literal for int()"
BadFloat == "ValueError: could not convert string to float"
BadIndex == "IndexError: string index out of range"
NotIterable == "TypeError: cannot unpack non-iterable object"
NotSubscriptable == "TypeError: object is not subscriptable"
NoKey == "KeyError"

\* the error of  [x1, ..., xn] = vals  when len(vals) # n
UnpackError(vals, n) ==
    IF Len(vals) < n THEN TooFew ELSE IF Len(vals) > n THEN TooMany ELSE NoError

\* whether  [x1, ..., xn] = vals  succeeds: only too few
UnpacksAtLeast(vals, n) == Len(vals) >= n

\* whether  [x1, ..., xn] = vals  succeeds
Unpacks(vals, n) == Len(vals) = n

Ok(d) == [err |-> NoError, data |-> d]
Fail(e, d) == [err |-> e, data |-> d]

-----------------------------------------------------------------------------
(* readNamingData: one pass of the loop over the lines *)

\* the first term given to a chip is kept
StoreTermOnce(spkrDict, chipNum, term) ==
    IF HasKey(spkrDict, chipNum) THEN spkrDict ELSE Put(spkrDict, chipNum, term)

\* spkrDict[int(chipNum)] = term
StoreTerm(spkrDict, chipNum, term) == Put(spkrDict, chipNum, term)

NamingRow(data, l) ==
    LET vals == Split(l, TAB) IN
    IF ~Unpacks(vals, 4) THEN Fail(UnpackError(vals, 4), data)
    ELSE
    LET lang == vals[1]
        spkr == vals[2]
        chipNum == vals[3]
        term == vals[4]
    IN
    IF ~IsInt(lang) THEN Fail(BadInt, data)
    ELSE
    LET d1 == IF HasKey(data, IntOf(lang)) THEN data ELSE Put(data, IntOf(lang), <<>>)
        langDict == Get(d1, IntOf(lang))
    IN
    IF ~IsInt(spkr) THEN Fail(BadInt, d1)
    ELSE
    LET ld1 == IF HasKey(langDict, IntOf(spkr)) THEN langDict
               ELSE Put(langDict, IntOf(spkr), <<>>)
        spkrDict == Get(ld1, IntOf(spkr))
    IN
    IF ~IsInt(chipNum) THEN Fail(BadInt, Put(d1, IntOf(lang), ld1))
    ELSE Ok(Put(d1, IntOf(lang),
                Put(ld1, IntOf(spkr), StoreTerm(spkrDict, IntOf(chipNum), term))))

-----------------------------------------------------------------------------
(* readFociData: one pass of the loop over the lines *)

\* the A and J rows collapse to hue 0
CollapseA(foci) == IF foci[1] = "A" THEN <<"A", "0">> ELSE foci

\* the J row is left as it is
KeepJ(foci) == foci

CollapseJ(foci) == IF foci[1] = "J" THEN <<"J", "0">> ELSE foci

\* '%s:%s' % (foci[0], foci[1:])
WithColon(foci) == <<foci[1]>> \o <<":">> \o SliceFrom(foci, 1)

\* lines 325-332, for a focus of at least one character
NewFoci(foci) == WithColon(CollapseJ(CollapseA(foci)))

FociRow(data, l) ==
    LET vals == Split(l, TAB) IN
    IF ~Unpacks(vals, 5) THEN Fail(UnpackError(vals, 5), data)
    ELSE
    LET lang == vals[1]
        spkr == vals[2]
        term == vals[4]
        foci == vals[5]
    IN
    IF ~IsInt(lang) THEN Fail(BadInt, data)
    ELSE
    LET d1 == IF HasKey(data, IntOf(lang)) THEN data ELSE Put(data, IntOf(lang), <<>>)
        langDict == Get(d1, IntOf(lang))
    IN
    IF ~IsInt(spkr) THEN Fail(BadInt, d1)
    ELSE
    LET ld1 == IF HasKey(langDict, IntOf(spkr)) THEN langDict
               ELSE Put(langDict, IntOf(spkr), <<>>)
        sd0 == Get(ld1, IntOf(spkr))
        spkrDict == IF HasKey(sd0, term) THEN sd0 ELSE Put(sd0, term, <<>>)
    IN
    IF foci = <<>>
    THEN Fail(BadIndex, Put(d1, IntOf(lang), Put(ld1, IntOf(spkr), spkrDict)))
    ELSE Ok(Put(d1, IntOf(lang),
                Put(ld1, IntOf(spkr),
                    Put(spkrDict, term, Append(Get(spkrDict, term), NewFoci(foci))))))

-----------------------------------------------------------------------------
(* readSpeakerData: one pass of the loop over the lines *)

\* Python values whose type the code's operations depend on
PyInt(n) == [tag |-> "int", val |-> n]
PyStr(s) == [tag |-> "str", val |-> s]
PyTuple(t) == [tag |-> "tuple", val |-> t]

SpeakerRow(data, l) ==
    LET vals == Split(l, TAB) IN
    IF ~Unpacks(vals, 4) THEN Fail(UnpackError(vals, 4), data)
    ELSE
    LET lang == vals[1]
        spkr == vals[2]
        age == vals[3]
        gender == vals[4]
    IN
    IF ~IsInt(lang) THEN Fail(BadInt, data)
    ELSE
    LET d1 == IF HasKey(data, IntOf(lang)) THEN data ELSE Put(data, IntOf(lang), <<>>)
        langDict == Get(d1, IntOf(lang))
    IN
    IF ~IsInt(age) \/ ~IsInt(spkr) THEN Fail(BadInt, d1)
    ELSE Ok(Put(d1, IntOf(lang),
                Put(langDict, IntOf(spkr),
                    PyTuple(<<PyInt(IntOf(age)), PyStr(gender)>>))))

-----------------------------------------------------------------------------
(* _get_munsell_dicts, _get_clab_dict, _get_rgb_dict: one pass of each loop *)

\* the hue before the row letter
MunsellKeySwapped(L, H) == H \o L

\* L+H
MunsellKey(L, H) == L \o H

\* data is <<munsell_to_chip, chip_to_munsell>>
MunsellRow(data, row) ==
    LET vals == Split(row, TAB)
        m2c == data[1]
        c2m == data[2]
    IN
    IF ~IsInt(vals[1]) THEN Fail(BadInt, data)
    ELSE IF ~Unpacks(LastTwo(vals), 2) THEN Fail(UnpackError(LastTwo(vals), 2), data)
    ELSE
    LET index == IntOf(vals[1])
        L == LastTwo(vals)[1]
        H == LastTwo(vals)[2]
        m2c1 == Put(m2c, MunsellKey(L, H), index)
    IN
    IF ~IsInt(H) THEN Fail(BadInt, <<m2c1, c2m>>)
    ELSE Ok(<<m2c1, Put(c2m, index, <<L, IntOf(H)>>)>>)

\* the CIELAB coordinates are 5:8
ClabRowAfterUnused(data, row) ==
    LET vals == Split(row, TAB)
        clab == Slice(vals, 5, 8)
    IN
    IF ~IsInt(vals[1]) THEN Fail(BadInt, data)
    ELSE IF \E k \in DOMAIN clab : ~IsFloat(clab[k]) THEN Fail(BadFloat, data)
    ELSE Ok(Put(data, IntOf(vals[1]), [k \in DOMAIN clab |-> FloatOf(clab[k])]))

\* the CIELAB coordinates are 4:7
ClabRow(data, row) ==
    LET vals == Split(row, TAB)
        clab == Slice(vals, 4, 7)
    IN
    IF ~IsInt(vals[1]) THEN Fail(BadInt, data)
    ELSE IF \E k \in DOMAIN clab : ~IsFloat(clab[k]) THEN Fail(BadFloat, data)
    ELSE Ok(Put(data, IntOf(vals[1]), [k \in DOMAIN clab |-> FloatOf(clab[k])]))

RgbRow(data, row) ==
    LET vals == Split(row, TAB)
        rgb == Slice(vals, 1, 4)
    IN
    IF ~IsInt(vals[1]) THEN Fail(BadInt, data)
    ELSE IF \E k \in DOMAIN rgb : ~IsInt(rgb[k]) THEN Fail(BadInt, data)
    ELSE Ok(Put(data, IntOf(vals[1]), [k \in DOMAIN rgb |-> IntOf(rgb[k])]))

-----------------------------------------------------------------------------
(* get_chip_to_rgb, get_chip_to_munsell: the DataFrame branch *)

RECURSIVE RgbFromFrame(_, _)
\* for i in range(len(chips)): chip_to_rgb[chips[i]] = tuple(rgb_vals[i])
RgbFromFrame(rows, d) ==
    IF rows = <<>> THEN d
    ELSE RgbFromFrame(Tail(rows),
                      Put(d, Head(rows).ChipNum,
                          <<Head(rows).R, Head(rows).G, Head(rows).B>>))

RECURSIVE MunsellFromFrame(_, _)
\* for i in range(len(chips)): chip_to_munsell[chips[i]] = tuple(munsell_vals[i])
MunsellFromFrame(rows, d) ==
    IF rows = <<>> THEN d
    ELSE MunsellFromFrame(Tail(rows),
                          Put(d, Head(rows).ChipNum,
                              <<Head(rows).Lightness, Head(rows).Hue>>))

-----------------------------------------------------------------------------
(* loadSpeakerTable *)

\* the (language, speaker, value) records in the order the two loops visit them
SpeakerRecords(data) ==
    Concat([n \in DOMAIN data |->
              [m \in DOMAIN data[n][2] |->
                 <<data[n][1], data[n][2][m][1], data[n][2][m][2]>>]])

\* v[0]
Index0(v) ==
    IF v.tag \in {"tuple", "str"}
    THEN IF v.val = <<>> THEN Fail(BadIndex, v)
         ELSE Ok(IF v.tag = "tuple" THEN v.val[1] ELSE PyStr(<<v.val[1]>>))
    ELSE Fail(NotSubscriptable, v)

\* a, g = v
Unpack2(v) ==
    IF v.tag \in {"tuple", "str"}
    THEN IF Len(v.val) # 2 THEN Fail(UnpackError(v.val, 2), v)
         ELSE Ok(IF v.tag = "tuple" THEN v.val
                 ELSE <<PyStr(<<v.val[1]>>), PyStr(<<v.val[2]>>)>>)
    ELSE Fail(NotIterable, v)

\* a, g = speakerData[lang][spkr][0]
AgeGender(value) ==
    IF Index0(value).err # NoError THEN Index0(value)
    ELSE Unpack2(Index0(value).data)

RECURSIVE SpeakerRows(_, _)
\* the loops of lines 196-205; rows holds what the four lists hold so far
SpeakerRows(records, rows) ==
    IF records = <<>> THEN Ok(rows)
    ELSE
    LET r == Head(records)
        ag == AgeGender(r[3])
    IN
    IF ag.err # NoError THEN Fail(ag.err, rows)
    ELSE SpeakerRows(Tail(records),
                     Append(rows, [Language |-> r[1], Speaker |-> r[2],
                                   Age |-> ag.data[1], Gender |-> ag.data[2]]))

loadSpeakerTable(data) == SpeakerRows(SpeakerRecords(data), <<>>)

-----------------------------------------------------------------------------
(* Inputs *)

\* a file's text: its lines, each ended by a newline
TextOf(rows) == Concat([n \in DOMAIN rows |-> Join(rows[n], TAB) \o <<NL>>])

\* the files of 1..n lines drawn from a pool of lines (each a tuple of fields)
Files(pool, n) == {TextOf(rows) : rows \in UNION {[1..m -> pool] : m \in 1..n}}

NamingPool ==
    { << <<"1">>, <<"1">>, <<"1">>, <<"b", "u">> >>,
      << <<"1">>, <<"1">>, <<"1">>, <<"r", "e">> >>,
      << <<"1">>, <<"0", "1">>, <<"2">>, <<"b", "u">> >>,
      << <<"1">>, <<"2">>, <<"1">>, <<"r", "e">> >>,
      << <<"2">>, <<"1">>, <<"1">>, <<"b", "u">> >>,
      << <<"1">>, <<"1">>, <<"2">> >>,
      << <<"1">>, <<"1">>, <<"2">>, <<"b", "u">>, <<"x">> >>,
      << <<"1">>, <<"1">>, <<"x">>, <<"b", "u">> >>,
      << <<"1">>, <<"1">>, <<"2">>, <<>> >>,
      << <<>> >> }

FociPool ==
    { << <<"1">>, <<"1">>, <<"1">>, <<"b", "u">>, <<"A", "5">> >>,
      << <<"1">>, <<"1">>, <<"1">>, <<"b", "u">>, <<"J", "1", "2">> >>,
      << <<"1">>, <<"1">>, <<"2">>, <<"r", "e">>, <<"G", "2", "9">> >>,
      << <<"1">>, <<"2">>, <<"1">>, <<"b", "u">>, <<"A", "0">> >>,
      << <<"1">>, <<"1">>, <<"1">>, <<"b", "u">>, <<"C", "5">> >>,
      << <<"1">>, <<"1">>, <<"1">>, <<"b", "u">> >>,
      << <<"1">>, <<"1">>, <<"1">>, <<"b", "u">>, <<"G", "2", "9">>, <<"x">> >>,
      << <<"1">>, <<"1">>, <<"1">>, <<"b", "u">>, <<>> >>,
      << <<"x">>, <<"1">>, <<"1">>, <<"b", "u">>, <<"G", "2", "9">> >> }

SpeakerPool ==
    { << <<"1">>, <<"1">>, <<"3", "0">>, <<"M">> >>,
      << <<"1">>, <<"2">>, <<"2", "5">>, <<"F">> >>,
      << <<"2">>, <<"1">>, <<"3", "0">>, <<"M">> >>,
      << <<"1">>, <<"1">>, <<"4", "1">>, <<"F">> >>,
      << <<"1">>, <<"1">>, <<"3", "0">> >>,
      << <<"1">>, <<"1">>, <<"3", "0">>, <<"M">>, <<"x">> >>,
      << <<"1">>, <<"1">>, <<"x">>, <<"M">> >> }

ChipPool ==
    { \* index, R, G, B, (unused), l, a, b, row letter, hue
      << <<"1">>, <<"2", "5", "5">>, <<"0">>, <<"0">>, <<"0">>, <<"5", "3", ".", "2">>,
         <<"8", "0", ".", "1">>, <<"6", "7", ".", "2">>, <<"A">>, <<"0">> >>,
      << <<"2">>, <<"0">>, <<"2", "5", "5">>, <<"0">>, <<"0">>, <<"8", "7", ".", "7">>,
         <<"-", "8", "6", ".", "1">>, <<"8", "3", ".", "1">>, <<"A">>, <<"1">> >>,
      \* the coordinate of chip 1 under index 2, the index 1 under another coordinate
      << <<"2">>, <<"9">>, <<"9">>, <<"9">>, <<"0">>, <<"1">>, <<"2">>, <<"3">>,
         <<"A">>, <<"0">> >>,
      << <<"1">>, <<"9">>, <<"9">>, <<"9">>, <<"0">>, <<"1">>, <<"2">>, <<"3">>,
         <<"B">>, <<"5">> >>,
      \* a hue written with a leading zero
      << <<"3">>, <<"9">>, <<"9">>, <<"9">>, <<"0">>, <<"1">>, <<"2">>, <<"3">>,
         <<"B">>, <<"0", "5">> >>,
      \* index, R, G, B, l, a, b, row letter, hue
      << <<"3">>, <<"1", "0">>, <<"2", "0">>, <<"3", "0">>, <<"5", "0", ".", "0">>,
         <<"1", ".", "5">>, <<"-", "2", ".", "5">>, <<"C">>, <<"7">> >>,
      \* short lines
      << <<"1">>, <<"5">> >>,
      << <<"1">> >>,
      << <<"1">>, <<"2", "5", "5">>, <<"0">>, <<"A">>, <<"0">> >>,
      \* fields that are not numbers: R, b, hue; R written as a float
      << <<"1">>, <<"x">>, <<"0">>, <<"0">>, <<"0">>, <<"1">>, <<"2">>, <<"3">>,
         <<"A">>, <<"0">> >>,
      << <<"1">>, <<"9">>, <<"9">>, <<"9">>, <<"0">>, <<"1">>, <<"2">>, <<"z">>,
         <<"A">>, <<"0">> >>,
      << <<"1">>, <<"9">>, <<"9">>, <<"9">>, <<"0">>, <<"1">>, <<"2">>, <<"3">>,
         <<"A">>, <<"x">> >>,
      << <<"1">>, <<"2", ".", "5">>, <<"0">>, <<"0">>, <<"0">>, <<"1">>, <<"2">>,
         <<"3">>, <<"A">>, <<"0">> >> }

\* rows of a chip DataFrame (readChipData with getFrame=True)
FramePool ==
    { [ChipNum |-> 1, R |-> 255, G |-> 0, B |-> 0, Lightness |-> <<"A">>, Hue |-> 0],
      [ChipNum |-> 2, R |-> 0, G |-> 255, B |-> 0, Lightness |-> <<"A">>, Hue |-> 1],
      [ChipNum |-> 1, R |-> 9, G |-> 9, B |-> 9, Lightness |-> <<"B">>, Hue |-> 5] }

Frames == UNION {[1..m -> FramePool] : m \in 0..MaxChipLines}

\* types of arguments that are neither a str nor a DataFrame
OtherTypes == {"NoneType", "int", "list", "dict", "bytes", "Table"}

FileReaders == {"readNamingData", "readFociData", "readSpeakerData", "readChipData"}

DualLoaders == {"get_chip_to_rgb", "get_chip_to_munsell"}

StrArg(t) == [type |-> "str", text |-> t, frame |-> <<>>]

\* the arguments a function is called with
Args(f) ==
    CASE f = "readNamingData" -> {StrArg(t) : t \in Files(NamingPool, MaxLines)}
      [] f = "readFociData" -> {StrArg(t) : t \in Files(FociPool, MaxLines)}
      [] f = "readSpeakerData" -> {StrArg(t) : t \in Files(SpeakerPool, MaxLines)}
      [] f = "readChipData" -> {StrArg(t) : t \in Files(ChipPool, MaxChipLines)}
      [] f \in DualLoaders ->
            {StrArg(t) : t \in Files(ChipPool, MaxChipLines)}
            \cup {[type |-> "DataFrame", text |-> <<>>, frame |-> fr] : fr \in Frames}
            \cup {[type |-> ty, text |-> <<>>, frame |-> <<>>] : ty \in OtherTypes}

-----------------------------------------------------------------------------
(* The loaders as a state machine *)

GridIdle ==
    /\ gridData = <<>>
    /\ term_colors = <<>>
    /\ grid_colors = <<>>
    /\ img = <<>>

ModeIdle ==
    /\ langData = <<>>
    /\ allTerms = <<>>
    /\ modeMap = <<>>
    /\ firstMap = <<>>

Init ==
    /\ fn \in FileReaders \cup DualLoaders
    /\ arg \in Args(fn)
    /\ pc = "call"
    /\ lines = <<>>
    /\ i = 0
    /\ err = NoError
    /\ warned = FALSE
    /\ namingData = <<>>
    /\ fociData = <<>>
    /\ speakerData = <<>>
    /\ munsell_to_chip = <<>>
    /\ chip_to_munsell = <<>>
    /\ chip_to_clab = <<>>
    /\ chip_to_rgb = <<>>
    /\ speakerTable = <<>>
    /\ ModeIdle
    /\ GridIdle

\* the loop a function enters after _read_lines
FirstLoop(f) ==
    CASE f = "readNamingData" -> "naming"
      [] f = "readFociData" -> "foci"
      [] f = "readSpeakerData" -> "speaker"
      [] f = "readChipData" -> "munsell"
      [] f = "get_chip_to_rgb" -> "rgb"
      [] f = "get_chip_to_munsell" -> "munsell"

\* where a function goes when a loop over the lines ends
AfterLoop(f, loop) ==
    IF f = "readChipData" /\ loop = "munsell" THEN "clab"
    ELSE IF f = "readChipData" /\ loop = "clab" THEN "rgb"
    ELSE "return"

\* lines = _read_lines(filename)
ReadLines ==
    /\ pc = "call"
    /\ arg.type = "str"
    /\ lines' = read_lines(arg.text)
    /\ pc' = FirstLoop(fn)
    /\ UNCHANGED <<fn, arg, i, err, warned, namingData, fociData, speakerData,
                   munsell_to_chip, chip_to_munsell, chip_to_clab, chip_to_rgb,
                   speakerTable, modeVars>>

\* what a pass of a loop does to the control state
Advance(r) ==
    IF r.err = NoError
    THEN /\ i' = i + 1
         /\ UNCHANGED <<pc, err>>
    ELSE /\ pc' = "raise"
         /\ err' = r.err
         /\ UNCHANGED i

NamingLine ==
    /\ pc = "naming"
    /\ i < Len(lines)
    /\ LET r == NamingRow(namingData, lines[i + 1]) IN
         /\ namingData' = r.data
         /\ Advance(r)
    /\ UNCHANGED <<fn, arg, lines, warned, fociData, speakerData, munsell_to_chip,
                   chip_to_munsell, chip_to_clab, chip_to_rgb, speakerTable, modeVars>>

FociLine ==
    /\ pc = "foci"
    /\ i < Len(lines)
    /\ LET r == FociRow(fociData, lines[i + 1]) IN
         /\ fociData' = r.data
         /\ Advance(r)
    /\ UNCHANGED <<fn, arg, lines, warned, namingData, speakerData, munsell_to_chip,
                   chip_to_munsell, chip_to_clab, chip_to_rgb, speakerTable, modeVars>>

SpeakerLine ==
    /\ pc = "speaker"
    /\ i < Len(lines)
    /\ LET r == SpeakerRow(speakerData, lines[i + 1]) IN
         /\ speakerData' = r.data
         /\ Advance(r)
    /\ UNCHANGED <<fn, arg, lines, warned, namingData, fociData, munsell_to_chip,
                   chip_to_munsell, chip_to_clab, chip_to_rgb, speakerTable, modeVars>>

MunsellLine ==
    /\ pc = "munsell"
    /\ i < Len(lines)
    /\ LET r == MunsellRow(<<munsell_to_chip, chip_to_munsell>>, lines[i + 1]) IN
         /\ munsell_to_chip' = r.data[1]
         /\ chip_to_munsell' = r.data[2]
         /\ Advance(r)
    /\ UNCHANGED <<fn, arg, lines, warned, namingData, fociData, speakerData,
                   chip_to_clab, chip_to_rgb, speakerTable, modeVars>>

ClabLine ==
    /\ pc = "clab"
    /\ i < Len(lines)
    /\ LET r == ClabRow(chip_to_clab, lines[i + 1]) IN
         /\ chip_to_clab' = r.data
         /\ Advance(r)
    /\ UNCHANGED <<fn, arg, lines, warned, namingData, fociData, speakerData,
                   munsell_to_chip, chip_to_munsell, chip_to_rgb, speakerTable, modeVars>>

RgbLine ==
    /\ pc = "rgb"
    /\ i < Len(lines)
    /\ LET r == RgbRow(chip_to_rgb, lines[i + 1]) IN
         /\ chip_to_rgb' = r.data
         /\ Advance(r)
    /\ UNCHANGED <<fn, arg, lines, warned, namingData, fociData, speakerData,
                   munsell_to_chip, chip_to_munsell, chip_to_clab, speakerTable, modeVars>>

Loops == {"naming", "foci", "speaker", "munsell", "clab", "rgb"}

\* a loop over the lines is exhausted: the next loop, or the return
EndLoop ==
    /\ pc \in Loops
    /\ i = Len(lines)
    /\ pc' = AfterLoop(fn, pc)
    /\ i' = IF AfterLoop(fn, pc) = "return" THEN i ELSE 0
    /\ UNCHANGED <<fn, arg, lines, err, warned, namingData, fociData, speakerData,
                   munsell_to_chip, chip_to_munsell, chip_to_clab, chip_to_rgb,
                   speakerTable, modeVars>>

\* get_chip_to_rgb, get_chip_to_munsell: elif type(...) == pd.DataFrame
FromDataFrame ==
    /\ pc = "call"
    /\ fn \in DualLoaders
    /\ arg.type = "DataFrame"
    /\ IF fn = "get_chip_to_rgb"
       THEN /\ chip_to_rgb' = RgbFromFrame(arg.frame, <<>>)
            /\ UNCHANGED chip_to_munsell
       ELSE /\ chip_to_munsell' = MunsellFromFrame(arg.frame, <<>>)
            /\ UNCHANGED chip_to_rgb
    /\ pc' = "return"
    /\ UNCHANGED <<fn, arg, lines, i, err, warned, namingData, fociData, speakerData,
                   munsell_to_chip, chip_to_clab, speakerTable, modeVars>>

\* the else branch raises
NoDataRaises == <<FALSE, "TypeError: expected a str or a DataFrame">>

\* what the else branch of a dual-mode loader does: <<printed a warning, raised>>
NoDataBranch == <<TRUE, NoError>>

\* get_chip_to_rgb, get_chip_to_munsell: else
NoData ==
    /\ pc = "call"
    /\ fn \in DualLoaders
    /\ arg.type \notin {"str", "DataFrame"}
    /\ warned' = NoDataBranch[1]
    /\ err' = NoDataBranch[2]
    /\ pc' = IF NoDataBranch[2] = NoError THEN "return" ELSE "raise"
    /\ IF fn = "get_chip_to_rgb"
       THEN chip_to_rgb' = <<>> /\ UNCHANGED chip_to_munsell
       ELSE chip_to_munsell' = <<>> /\ UNCHANGED chip_to_rgb
    /\ UNCHANGED <<fn, arg, lines, i, namingData, fociData, speakerData,
                   munsell_to_chip, chip_to_clab, speakerTable, modeVars>>

\* speakerTable = loadSpeakerTable(speakerData), on what readSpeakerData returned
LoadSpeakerTable ==
    /\ fn = "readSpeakerData"
    /\ pc = "return"
    /\ fn' = "loadSpeakerTable"
    /\ LET r == loadSpeakerTable(speakerData) IN
         /\ speakerTable' = r.data
         /\ err' = r.err
         /\ pc' = IF r.err = NoError THEN "return" ELSE "raise"
    /\ UNCHANGED <<arg, lines, i, warned, namingData, fociData, speakerData,
                   munsell_to_chip, chip_to_munsell, chip_to_clab, chip_to_rgb, modeVars>>

Next ==
    \/ ReadLines
    \/ NamingLine
    \/ FociLine
    \/ SpeakerLine
    \/ MunsellLine
    \/ ClabLine
    \/ RgbLine
    \/ EndLoop
    \/ FromDataFrame
    \/ NoData
    \/ LoadSpeakerTable

Spec == Init /\ [][Next]_vars

-----------------------------------------------------------------------------
(* makeModeMap *)

RECURSIVE AddItems(_, _)
\* for chip, term in spkrData.items(): the term goes to the end of the chip's list
AddItems(items, terms) ==
    IF items = <<>> THEN terms
    ELSE LET chip == Head(items)[1]
             term == Head(items)[2]
         IN  AddItems(Tail(items),
                      Put(terms, chip, Append(GetOr(terms, chip, <<>>), term)))

RECURSIVE Frequencies(_, _)
\* for i in aList: freq[i] = freq.get(i, 0) + 1
Frequencies(aList, freq) ==
    IF aList = <<>> THEN freq
    ELSE Frequencies(Tail(aList), Put(freq, Head(aList), GetOr(freq, Head(aList), 0) + 1))

\* x goes before the keys that count as much as it does
InsertBeforeTies(sorted, x, freq) ==
    LET p == Cardinality({n \in DOMAIN sorted : Get(freq, sorted[n]) > Get(freq, x)})
    IN  SubSeq(sorted, 1, p) \o <<x>> \o SubSeq(sorted, p + 1, Len(sorted))

\* a stable descending sort puts x after the keys that count at least as much
InsertDescending(sorted, x, freq) ==
    LET p == Cardinality({n \in DOMAIN sorted : Get(freq, sorted[n]) >= Get(freq, x)})
    IN  SubSeq(sorted, 1, p) \o <<x>> \o SubSeq(sorted, p + 1, Len(sorted))

RECURSIVE SortedDescending(_, _, _)
\* sorted(freq, key=freq.get, reverse=True), given the keys taken so far
SortedDescending(keys, sorted, freq) ==
    IF keys = <<>> THEN sorted
    ELSE SortedDescending(Tail(keys), InsertDescending(sorted, Head(keys), freq), freq)

\* findMode(aList), for a list that is not empty
findMode(aList) ==
    LET freq == Frequencies(aList, <<>>)
        freqlist == SortedDescending(KeyList(freq), <<>>, freq)
    IN  freqlist[1]

\* a chip that one speaker only has named gets no mode
ModesOfContested(terms) ==
    LET kept == SelectSeq(terms, LAMBDA e : Len(e[2]) > 1)
    IN  [n \in DOMAIN kept |-> <<kept[n][1], findMode(kept[n][2])>>]

\* every chip 1..top gets a mode, the empty term if nobody named it
ModesUpTo(terms, top) ==
    [c \in 1..top |-> <<c, IF HasKey(terms, c) THEN findMode(Get(terms, c)) ELSE <<>> >>]

\* every chip of the survey gets a mode
ModesOfAll(terms) == ModesUpTo(terms, 2)

\* for chip, terms in allTerms.items(): modeMap[chip] = findMode(terms)
ModesOf(terms) == [n \in DOMAIN terms |-> <<terms[n][1], findMode(terms[n][2])>>]

-----------------------------------------------------------------------------
(* makeModeMap as a state machine *)

\* the chips and the terms of the naming data given to makeModeMap
Chips == {1, 2}
Terms == {<<"b", "u">>, <<"r", "e">>}

\* what a speaker's dictionary can be: some chips, in any order, each with a term
SpeakerMaps ==
    UNION {{d \in [1..m -> Chips \X Terms] :
               \A a, b \in 1..m : a # b => d[a][1] # d[b][1]}
           : m \in 1..Cardinality(Chips)}

\* what a language's dictionary can be: speakers 1..m
LangDatas ==
    UNION {{[n \in 1..m |-> <<n, f[n]>>] : f \in [1..m -> SpeakerMaps]}
           : m \in 1..MaxSpeakers}

\* lang: not given (the data is then the dictionary of one language), or a key
LangArgs == {[given |-> FALSE, key |-> 1], [given |-> TRUE, key |-> 1],
             [given |-> TRUE, key |-> 2]}

LoaderIdle ==
    /\ lines = <<>>
    /\ warned = FALSE
    /\ namingData = <<>>
    /\ fociData = <<>>
    /\ speakerData = <<>>
    /\ munsell_to_chip = <<>>
    /\ chip_to_munsell = <<>>
    /\ chip_to_clab = <<>>
    /\ chip_to_rgb = <<>>
    /\ speakerTable = <<>>

\* makeModeMap(namingData, lang=key) or makeModeMap(namingData[1])
InitMode ==
    /\ fn = "makeModeMap"
    /\ arg \in {[type |-> "dict", naming |-> << <<1, d>> >>, lang |-> l] :
                   d \in LangDatas, l \in LangArgs}
    /\ pc = "call"
    /\ i = 0
    /\ err = NoError
    /\ LoaderIdle
    /\ ModeIdle
    /\ GridIdle

\* lines 406-415
SelectLanguage ==
    /\ fn = "makeModeMap"
    /\ pc = "call"
    /\ IF HasKey(arg.naming, arg.lang.key)
       THEN /\ langData' = Get(arg.naming, arg.lang.key)
            /\ pc' = "accumulate"
            /\ UNCHANGED err
       ELSE /\ pc' = "raise"
            /\ err' = NoKey
            /\ UNCHANGED langData
    /\ UNCHANGED <<fn, arg, i, allTerms, modeMap, firstMap, loaderVars>>

\* one pass of  for spkrData in langData.values()
AccumulateSpeaker ==
    /\ pc = "accumulate"
    /\ i < Len(langData)
    /\ allTerms' = AddItems(ValueList(langData)[i + 1], allTerms)
    /\ i' = i + 1
    /\ UNCHANGED <<fn, arg, pc, err, langData, modeMap, firstMap, loaderVars>>

\* lines 433-437
FindModes ==
    /\ pc = "accumulate"
    /\ i = Len(langData)
    /\ modeMap' = ModesOf(allTerms)
    /\ pc' = "return"
    /\ UNCHANGED <<fn, arg, i, err, langData, allTerms, firstMap, loaderVars>>

\* makeModeMap({1: modeMap}): the mode map as the data of a language of one speaker
FeedBack ==
    /\ fn = "makeModeMap"
    /\ pc = "return"
    /\ firstMap = <<>>
    /\ firstMap' = <<modeMap>>
    /\ langData' = << <<1, modeMap>> >>
    /\ allTerms' = <<>>
    /\ modeMap' = <<>>
    /\ i' = 0
    /\ pc' = "accumulate"
    /\ UNCHANGED <<fn, arg, err, loaderVars>>

NextMode ==
    \/ SelectLanguage
    \/ AccumulateSpeaker
    \/ FindModes
    \/ FeedBack

SpecMode == InitMode /\ [][NextMode]_vars

-----------------------------------------------------------------------------
(* naming2grid *)

\* the rows of grid_colors: np.zeros((330, 3))
GridRows == 330

\* the white level of a channel of chip_to_rgb
FullScale == 255

OutOfBounds == "IndexError: index is out of bounds"
NotInList == "ValueError: is not in list"

RECURSIVE Gcd(_, _)
Gcd(a, b) == IF b = 0 THEN a ELSE Gcd(b, a % b)

\* the float n / d for n >= 0 and d > 0, as the fraction <<n, d>> in lowest terms
Ratio(n, d) == <<n \div Gcd(n, d), d \div Gcd(n, d)>>

\* the positions of every entry
term_idx_all(values, term) == [n \in DOMAIN values |-> n - 1]

\* np.where(np.array(list(data.values())) == term)[0]: the positions, from 0, of the
\* entries that hold the term
term_idx(values, term) ==
    SelectSeq([n \in DOMAIN values |-> n - 1], LAMBDA p : values[p + 1] = term)

RECURSIVE ChannelSum(_, _, _, _)
\* the sum of channel c of the rows lo..hi, the first half of the rows before the second
ChannelSum(rgbs, c, lo, hi) ==
    IF lo > hi THEN 0
    ELSE IF lo = hi THEN rgbs[lo][c]
    ELSE ChannelSum(rgbs, c, lo, (lo + hi) \div 2)
           + ChannelSum(rgbs, c, ((lo + hi) \div 2) + 1, hi)

\* np.mean(np.array(rgbs), axis=0) / 255., for rows of three channels
MeanColor(rgbs) ==
    <<Ratio(ChannelSum(rgbs, 1, 1, Len(rgbs)), Len(rgbs) * FullScale),
      Ratio(ChannelSum(rgbs, 2, 1, Len(rgbs)), Len(rgbs) * FullScale),
      Ratio(ChannelSum(rgbs, 3, 1, Len(rgbs)), Len(rgbs) * FullScale)>>

\* one pass of  for term in set(data.values())
TermColor(d, rgb, colors, term) ==
    LET idx == term_idx(ValueList(d), term) IN
    IF \E n \in DOMAIN idx : ~HasKey(rgb, idx[n] + 1) THEN Fail(NoKey, colors)
    ELSE Ok(Put(colors, term, MeanColor([n \in DOMAIN idx |-> Get(rgb, idx[n] + 1)])))

\* a row of np.zeros((330, 3))
ZeroRow == <<Ratio(0, 1), Ratio(0, 1), Ratio(0, 1)>>

\* range(1, len(data) + 1)
GridChipsOfData(d, rgb) == Len(d)

\* range(1, len(chip_to_rgb) + 1): its last chip
GridChips(d, rgb) == Len(rgb)

\* what  grid_colors[i-1] = term_colors[data[i]]  raises
GridRowError(d, chip) ==
    IF ~HasKey(d, chip) THEN NoKey
    ELSE IF chip > GridRows THEN OutOfBounds
    ELSE NoError

\* lines 472-476: the array, or the error of the first chip that raises
GridOf(d, rgb, colors) ==
    LET failing == {c \in 1..GridChips(d, rgb) : GridRowError(d, c) # NoError} IN
    IF failing # {}
    THEN Fail(GridRowError(d, CHOOSE c \in failing : \A o \in failing : c <= o), <<>>)
    ELSE Ok([r \in 1..GridRows |->
                IF r <= GridChips(d, rgb) THEN Get(colors, Get(d, r)) ELSE ZeroRow])

-----------------------------------------------------------------------------
(* _chip2ind, _grid2img *)

ROWS == << <<"A">>, <<"B">>, <<"C">>, <<"D">>, <<"E">>, <<"F">>, <<"G">>, <<"H">>,
           <<"I">>, <<"J">> >>

N_COLS == 41
N_ROWS == 10

\* ROWS.index(x), for an x of ROWS
RowIndex(x) == (CHOOSE n \in DOMAIN ROWS : ROWS[n] = x) - 1

\* <<row, col>> of a coordinate whose row letter is one of ROWS
IndOf(coord) == <<RowIndex(coord[1]), coord[2]>>

\* _chip2ind: <<row, col>> of a chip of chip_to_munsell
chip2ind(chipNum, c2m) == IndOf(Get(c2m, chipNum))

\* every column moves one to the right
ShiftEvery(j) == j + 1

\* j = j + 1 if j>0 else j
Shift(j) == IF j > 0 THEN j + 1 ELSE j

\* the column an index j of an axis of n columns means: a negative index counts from
\* the end
Wrapped(j, n) == IF j < 0 THEN j + n ELSE j

\* np.ones((N_ROWS, N_COLS + 1, 3))
WhiteCell == <<Ratio(1, 1), Ratio(1, 1), Ratio(1, 1)>>

Ones == [cell \in (0..(N_ROWS - 1)) \X (0..N_COLS) |-> WhiteCell]

\* what the pass of the loop for chipNum raises
CellError(chipNum, c2m) ==
    IF ~HasKey(c2m, chipNum) THEN NoKey
    ELSE IF \A n \in DOMAIN ROWS : ROWS[n] # Get(c2m, chipNum)[1] THEN NotInList
    ELSE IF Wrapped(Shift(chip2ind(chipNum, c2m)[2]), N_COLS + 1) \notin 0..N_COLS
    THEN OutOfBounds
    ELSE NoError

\* the cell img[i, j, :] of the pass of the loop that found <<i, col>>
CellOf(ind) == <<ind[1], Wrapped(Shift(ind[2]), N_COLS + 1)>>

\* the loop of _grid2img, for chips that all have a cell: the passes write in the order
\* of the chips, so a cell ends with the row of the last chip that wrote it (a chip is
\* an entry of chip_to_munsell with a key of 1..len(grid))
Paint(grid, c2m) ==
    [cell \in DOMAIN Ones |->
        LET writers == {c2m[n][1] : n \in {e \in DOMAIN c2m :
                            /\ c2m[e][1] \in 1..Len(grid)
                            /\ CellOf(IndOf(c2m[e][2])) = cell}}
        IN  IF writers = {} THEN Ones[cell]
            ELSE grid[CHOOSE c \in writers : \A o \in writers : o <= c]]

\* _grid2img: the image, or the error of the first chip that raises
grid2img(grid, c2m) ==
    LET failing == {c \in 1..Len(grid) : CellError(c, c2m) # NoError} IN
    IF failing # {}
    THEN Fail(CellError(CHOOSE c \in failing : \A o \in failing : c <= o, c2m), <<>>)
    ELSE Ok(Paint(grid, c2m))

-----------------------------------------------------------------------------
(* readNamingData, makeModeMap, naming2grid, _grid2img as a state machine *)

\* most chips of a dictionary given to naming2grid
MaxGridChips == 3

\* most lines of the naming file whose mode map goes to naming2grid
MaxGridLines == 3

\* the RGB values of a chip: no two chips of the chart have the same
ChipColor(chip) ==
    <<(chip * 64) % 256, (chip * 3) % 256, FullScale - ((chip \div 2) % 256)>>

\* the sequences of distinct chips of 1..top: the orders a dictionary can hold its keys in
KeyOrders(top) ==
    UNION {{k \in [1..m -> 1..top] : \A a, b \in 1..m : a # b => k[a] # k[b]}
           : m \in 0..top}

\* chip -> term dictionaries of at most MaxGridChips chips, in any order
DataMaps ==
    UNION {{[n \in DOMAIN k |-> <<k[n], t[n]>>] : t \in [DOMAIN k -> Terms]}
           : k \in KeyOrders(MaxGridChips)}

\* chip -> RGB dictionaries of some of the chips 1..MaxGridChips
RgbMaps ==
    {[n \in DOMAIN k |-> <<k[n], ChipColor(k[n])>>] :
        k \in {o \in KeyOrders(MaxGridChips) : \A a, b \in DOMAIN o : a < b => o[a] < o[b]}}

\* the dictionaries of the chips 1..n: a term that changes every third chip
DataUpTo(n) == [c \in 1..n |-> <<c, IF (c \div 3) % 2 = 0 THEN <<"b", "u">> ELSE <<"r", "e">> >>]

RgbUpTo(n) == [c \in 1..n |-> <<c, ChipColor(c)>>]

\* the chart: chip 1 is A0, chip 330 is J0, the chips between them fill the rows B to I
\* with the hues 0 to 40
FullMunsell ==
    [c \in 1..GridRows |->
        <<c, IF c = 1 THEN <<ROWS[1], 0>>
             ELSE IF c = GridRows THEN <<ROWS[N_ROWS], 0>>
             ELSE <<ROWS[2 + ((c - 2) \div N_COLS)], (c - 2) % N_COLS>> >>]

\* the first chips of the chart
MunsellUpTo(n) == SubSeq(FullMunsell, 1, n)

\* a grid with a colour of its own for every chip
FullGrid == [c \in 1..GridRows |-> MeanColor(<<ChipColor(c)>>)]

\* coordinates inside and outside the chart
CoordPool ==
    { << <<"A">>, 0>>, << <<"B">>, 1>>, << <<"B">>, 40>>, << <<"J">>, 0>>,
      << <<"B">>, 41>>, << <<"C">>, -1>>, << <<"K">>, 3>> }

\* chip -> coordinate dictionaries of the chips 1..m
SmallMunsell ==
    UNION {{[c \in 1..m |-> <<c, f[c]>>] : f \in [1..m -> CoordPool]} : m \in 1..2}

\* grids of one or two rows
SmallGrids ==
    UNION {[1..m -> {MeanColor(<<ChipColor(1)>>), MeanColor(<<ChipColor(2)>>)}]
           : m \in 1..2}

\* lines of a naming file of language 1: speakers 1 and 2, chips 1 and 2
GridNamingPool ==
    { << <<"1">>, <<"1">>, <<"1">>, <<"b", "u">> >>,
      << <<"1">>, <<"1">>, <<"1">>, <<"r", "e">> >>,
      << <<"1">>, <<"1">>, <<"2">>, <<"b", "u">> >>,
      << <<"1">>, <<"1">>, <<"2">>, <<"r", "e">> >>,
      << <<"1">>, <<"2">>, <<"1">>, <<"r", "e">> >>,
      << <<"1">>, <<"2">>, <<"2">>, <<"b", "u">> >> }

\* an argument that is not a file name
DictArg(naming) == [type |-> "dict", naming |-> naming, lang |-> [given |-> TRUE, key |-> 1]]

\* grid = naming2grid(makeModeMap(readNamingData(filename), lang=1), chip_to_rgb)
InitPipeline ==
    /\ fn = "readNamingData"
    /\ arg \in {StrArg(t) : t \in Files(GridNamingPool, MaxGridLines)}
    /\ pc = "call"
    /\ gridData = <<>>
    /\ grid_colors = <<>>
    /\ chip_to_rgb \in {RgbUpTo(1), RgbUpTo(2)}
    /\ chip_to_munsell = MunsellUpTo(2)

\* grid = naming2grid(data, chip_to_rgb)
InitNaming2grid ==
    /\ fn = "naming2grid"
    /\ arg = DictArg(<<>>)
    /\ pc = "terms"
    /\ grid_colors = <<>>
    /\ \/ /\ gridData \in DataMaps
          /\ chip_to_rgb \in RgbMaps
          /\ chip_to_munsell = MunsellUpTo(MaxGridChips)
       \/ /\ \E n \in {GridRows, GridRows + 1} :
                /\ gridData = DataUpTo(n)
                /\ chip_to_rgb \in {RgbUpTo(n), RgbUpTo(GridRows)}
          /\ chip_to_munsell = FullMunsell

\* img = _grid2img(grid, chip_to_munsell)
InitGrid2img ==
    /\ fn = "_grid2img"
    /\ arg = DictArg(<<>>)
    /\ pc = "call"
    /\ gridData = <<>>
    /\ chip_to_rgb = <<>>
    /\ \/ /\ grid_colors \in SmallGrids
          /\ chip_to_munsell \in SmallMunsell
       \/ /\ grid_colors = FullGrid
          /\ chip_to_munsell = FullMunsell

InitGrid ==
    /\ i = 0
    /\ err = NoError
    /\ lines = <<>>
    /\ warned = FALSE
    /\ namingData = <<>>
    /\ fociData = <<>>
    /\ speakerData = <<>>
    /\ munsell_to_chip = <<>>
    /\ chip_to_clab = <<>>
    /\ speakerTable = <<>>
    /\ ModeIdle
    /\ term_colors = <<>>
    /\ img = <<>>
    /\ \/ InitPipeline
       \/ InitNaming2grid
       \/ InitGrid2img

\* makeModeMap(namingData, lang=1), on what readNamingData returned
CallMakeModeMap ==
    /\ fn = "readNamingData"
    /\ pc = "return"
    /\ fn' = "makeModeMap"
    /\ arg' = DictArg(namingData)
    /\ pc' = "call"
    /\ i' = 0
    /\ UNCHANGED <<err, loaderVars, modeVars>>

\* naming2grid(modeMap, chip_to_rgb), on what makeModeMap returned
CallNaming2grid ==
    /\ fn = "makeModeMap"
    /\ pc = "return"
    /\ fn' = "naming2grid"
    /\ gridData' = modeMap
    /\ term_colors' = <<>>
    /\ pc' = "terms"
    /\ UNCHANGED <<arg, i, err, lines, warned, namingData, fociData, speakerData,
                   munsell_to_chip, chip_to_munsell, chip_to_clab, chip_to_rgb,
                   speakerTable, langData, allTerms, modeMap, firstMap, grid_colors, img>>

\* one pass of  for term in set(data.values()): a set gives its elements in any order
TermColorStep ==
    /\ fn = "naming2grid"
    /\ pc = "terms"
    /\ \E term \in {gridData[n][2] : n \in DOMAIN gridData} \ KeySet(term_colors) :
             LET r == TermColor(gridData, chip_to_rgb, term_colors, term) IN
               /\ term_colors' = r.data
               /\ err' = r.err
               /\ pc' = IF r.err = NoError THEN pc ELSE "raise"
    /\ UNCHANGED <<fn, arg, i, lines, warned, namingData, fociData, speakerData,
                   munsell_to_chip, chip_to_munsell, chip_to_clab, chip_to_rgb,
                   speakerTable, langData, allTerms, modeMap, firstMap, gridData,
                   grid_colors, img>>

\* lines 472-476, once every term has its colour
AssembleGrid ==
    /\ fn = "naming2grid"
    /\ pc = "terms"
    /\ {gridData[n][2] : n \in DOMAIN gridData} \subseteq KeySet(term_colors)
    /\ LET r == GridOf(gridData, chip_to_rgb, term_colors) IN
         /\ grid_colors' = r.data
         /\ err' = r.err
         /\ pc' = IF r.err = NoError THEN "return" ELSE "raise"
    /\ UNCHANGED <<fn, arg, i, lines, warned, namingData, fociData, speakerData,
                   munsell_to_chip, chip_to_munsell, chip_to_clab, chip_to_rgb,
                   speakerTable, langData, allTerms, modeMap, firstMap, gridData,
                   term_colors, img>>

\* img = _grid2img(grid, chip_to_munsell), as plotColorGrid calls it
Grid2img ==
    /\ \/ fn = "naming2grid" /\ pc = "return"
       \/ fn = "_grid2img" /\ pc = "call"
    /\ fn' = "_grid2img"
    /\ LET r == grid2img(grid_colors, chip_to_munsell) IN
         /\ img' = r.data
         /\ err' = r.err
         /\ pc' = IF r.err = NoError THEN "return" ELSE "raise"
    /\ UNCHANGED <<arg, i, lines, warned, namingData, fociData, speakerData,
                   munsell_to_chip, chip_to_munsell, chip_to_clab, chip_to_rgb,
                   speakerTable, langData, allTerms, modeMap, firstMap, gridData,
                   term_colors, grid_colors>>

NextGrid ==
    \/ ReadLines
    \/ NamingLine
    \/ EndLoop
    \/ CallMakeModeMap
    \/ SelectLanguage
    \/ AccumulateSpeaker
    \/ FindModes
    \/ CallNaming2grid
    \/ TermColorStep
    \/ AssembleGrid
    \/ Grid2img

SpecGrid == InitGrid /\ [][NextGrid]_vars

-----------------------------------------------------------------------------
(* Properties of the readers *)

\* the fields of the k-th line
Fields(k) == Split(lines[k], TAB)

\* the number of tab-separated fields of the k-th line: its tabs, plus one
FieldCount(k) == Cardinality({n \in DOMAIN lines[k] : lines[k][n] = TAB}) + 1

\* a reader is in its loop or has returned: lines 1..i went into its mapping
Reading(f, loop) == fn = f /\ pc \in {loop, "return"}

\* a row letter followed by digits
LetterDigits(foci) ==
    /\ Len(foci) >= 2
    /\ foci[1] \notin Digits
    /\ \A n \in 2..Len(foci) : foci[n] \in Digits

\* what readFociData stored for the line it read last
LastStored ==
    LET v == Fields(i)
        l == Get(Get(Get(fociData, IntOf(v[1])), IntOf(v[2])), v[4])
    IN  l[Len(l)]

\* C1, as stated: readFociData (dictionary mode) stores "A0" for a focus 'A' followed by
\* digits, "J0" for 'J' followed by digits, and "X:nn" for any other focus "Xnn".
C1_AsStated ==
    (Reading("readFociData", "foci") /\ i >= 1 /\ LetterDigits(Fields(i)[5])) =>
        LET foci == Fields(i)[5] IN
        LastStored = IF foci[1] = "A" THEN <<"A", "0">>
                     ELSE IF foci[1] = "J" THEN <<"J", "0">>
                     ELSE <<foci[1], ":">> \o Tail(foci)

\* C1, amended: readFociData (dictionary mode) stores "A:0" for a focus 'A' followed by
\* digits, "J:0" for 'J' followed by digits, and "X:nn" for any other focus "Xnn": the
\* colon is put into the collapsed coordinates too.
C1_FociNormalized ==
    (Reading("readFociData", "foci") /\ i >= 1 /\ LetterDigits(Fields(i)[5])) =>
        LET foci == Fields(i)[5] IN
        LastStored = IF foci[1] = "A" THEN <<"A", ":", "0">>
                     ELSE IF foci[1] = "J" THEN <<"J", ":", "0">>
                     ELSE <<foci[1], ":">> \o Tail(foci)

\* readFociData returned, and the last focus it read was in row J with a hue other than 0
C1_Witness ==
    /\ fn = "readFociData"
    /\ pc = "return"
    /\ i >= 2
    /\ Fields(i)[5] = <<"J", "1", "2">>
    /\ Fields(1)[5] = <<"A", "5">>
    /\ LastStored = <<"J", ":", "0">>

\* the (language, speaker, chip) key of the k-th naming line
NamingKey(k) == <<IntOf(Fields(k)[1]), IntOf(Fields(k)[2]), IntOf(Fields(k)[3])>>

\* the (language, speaker, chip) entries of the nested mapping
NamingEntries ==
    UNION {UNION {{<<namingData[a][1], namingData[a][2][b][1], namingData[a][2][b][2][c][1]>>
                     : c \in DOMAIN namingData[a][2][b][2]}
                  : b \in DOMAIN namingData[a][2]}
           : a \in DOMAIN namingData}

\* the number of (language, speaker, chip) entries, counted leaf by leaf
RECURSIVE SumLens(_)
SumLens(ds) == IF ds = <<>> THEN 0 ELSE Len(Head(ds)[2]) + SumLens(Tail(ds))

RECURSIVE CountEntries(_)
CountEntries(data) ==
    IF data = <<>> THEN 0 ELSE SumLens(Head(data)[2]) + CountEntries(Tail(data))

\* C3: after readNamingData has read lines 1..i, the nested mapping holds as many
\* (language, speaker, chip) entries as those lines hold distinct keys, and under each key
\* the term of the last line carrying it.
C3_NamingEntries ==
    Reading("readNamingData", "naming") =>
        /\ CountEntries(namingData) = Cardinality({NamingKey(k) : k \in 1..i})
        /\ NamingEntries = {NamingKey(k) : k \in 1..i}
        /\ \A k \in 1..i :
              LET last == CHOOSE m \in 1..i :
                             /\ NamingKey(m) = NamingKey(k)
                             /\ \A n \in (m + 1)..i : NamingKey(n) # NamingKey(k)
                  key == NamingKey(k)
              IN  Get(Get(Get(namingData, key[1]), key[2]), key[3]) = Fields(last)[4]

\* readNamingData returned from a file that names a chip twice, with different terms,
\* and another chip between the two
C3_Witness ==
    /\ fn = "readNamingData"
    /\ pc = "return"
    /\ i = 3
    /\ NamingKey(1) = NamingKey(3)
    /\ NamingKey(2) # NamingKey(1)
    /\ Fields(1)[4] # Fields(3)[4]
    /\ CountEntries(namingData) = 2

\* the number of fields a reader takes a line apart into
Expected(f) == IF f = "readFociData" THEN 5 ELSE 4

LineReaders == {"readNamingData", "readFociData", "readSpeakerData"}

\* C8: readNamingData, readFociData and readSpeakerData fail with a field-count error, and
\* return nothing, as soon as a line does not split into exactly 4, 5 and 4 fields: no line
\* with another count is ever passed, none is in a returned mapping, and the error raised at
\* such a line is the field-count error of its case (too few, too many).
C8_FieldCount ==
    (fn \in LineReaders /\ pc # "call") =>
        /\ \A k \in 1..i : FieldCount(k) = Expected(fn)
        /\ pc = "return" => i = Len(lines)
        /\ pc = "raise" =>
              /\ FieldCount(i + 1) < Expected(fn) => err = TooFew
              /\ FieldCount(i + 1) > Expected(fn) => err = TooMany

\* a reader failed on a line with too many fields, after a line it accepted
C8_Witness ==
    /\ fn \in LineReaders
    /\ pc = "raise"
    /\ i >= 1
    /\ FieldCount(i + 1) > Expected(fn)
    /\ err = TooMany

-----------------------------------------------------------------------------
(* Properties of the chip table parser *)

\* _get_munsell_dicts has returned its two dictionaries
MunsellDone ==
    \/ fn = "readChipData" /\ pc \in {"clab", "rgb", "return"}
    \/ fn = "get_chip_to_munsell" /\ arg.type = "str" /\ pc = "return"

\* the index of the k-th line, as written
ChipIndex(k) == Fields(k)[1]

\* the row letter of the k-th line
ChipRow(k) == Fields(k)[Len(Fields(k)) - 1]

\* the hue of the k-th line, as written
ChipHue(k) == Fields(k)[Len(Fields(k))]

\* no index and no coordinate (row letter and hue, as written) is given twice
DistinctChips ==
    \A k, m \in DOMAIN lines :
        k # m => /\ IntOf(ChipIndex(k)) # IntOf(ChipIndex(m))
                 /\ ChipRow(k) \o ChipHue(k) # ChipRow(m) \o ChipHue(m)

\* every hue is written the way str() writes its number
PlainHues == \A k \in DOMAIN lines : StrOf(IntOf(ChipHue(k))) = ChipHue(k)

\* the key formed from a stored coordinate (L, H)
CoordKey(coord) == coord[1] \o StrOf(coord[2])

\* the two dictionaries are inverses of each other
Inverses ==
    /\ \A k \in DOMAIN lines :
          LET index == IntOf(ChipIndex(k)) IN
          /\ HasKey(chip_to_munsell, index)
          /\ HasKey(munsell_to_chip, CoordKey(Get(chip_to_munsell, index)))
          /\ Get(munsell_to_chip, CoordKey(Get(chip_to_munsell, index))) = index
    /\ \A n \in DOMAIN munsell_to_chip :
          /\ HasKey(chip_to_munsell, munsell_to_chip[n][2])
          /\ CoordKey(Get(chip_to_munsell, munsell_to_chip[n][2])) = munsell_to_chip[n][1]

\* C2, as stated: for every well-formed chip file (every line parses, no index and no
\* coordinate is given twice) the coordinate->index map and the index->coordinate map
\* that _get_munsell_dicts returns are exact inverses.
C2_AsStated == (MunsellDone /\ DistinctChips) => Inverses

\* C2, amended: for every chip file whose lines parse, give no index and no coordinate
\* (row letter followed by hue, as written) twice and write every hue H the way str(int(H))
\* does (no leading zero, no plus sign), the coordinate->index map and the
\* index->coordinate map are exact inverses: the key formed from the stored (L, H) of chip
\* i maps to i, and every key of coordinate->index maps to an index whose stored
\* coordinate forms that key.
C2_MunsellInverses == (MunsellDone /\ DistinctChips /\ PlainHues) => Inverses

\* _get_munsell_dicts returned the dictionaries of a file of two chips with plain hues
C2_Witness ==
    /\ fn = "readChipData"
    /\ pc = "return"
    /\ DistinctChips
    /\ PlainHues
    /\ Len(lines) = 2
    /\ Len(munsell_to_chip) = 2
    /\ Len(chip_to_munsell) = 2

\* the fields of a chip row of the DataFrame layout: ChipNum, R, G, B, l, a, b,
\* Lightness, Hue
ChipFields == 9

\* whether the three loops of the chip parser pass a line: an index that is an int, two
\* fields at least, a last field that is an int, ints at positions 1..3 and floats at
\* positions 4..6 as far as the line has them
Passes(vals) ==
    /\ IsInt(vals[1])
    /\ Len(vals) >= 2
    /\ IsInt(vals[Len(vals)])
    /\ \A n \in 2..4 : n <= Len(vals) => IsInt(vals[n])
    /\ \A n \in 5..7 : n <= Len(vals) => IsFloat(vals[n])

\* C7, as stated: readChipData (dictionary mode) fails for every line that has fewer
\* fields than a chip row and for every line with a numeric field (index, R, G, B, the
\* three fields after them, the hue) that is not a number; it returns no dictionaries
\* built from such a line.
C7_AsStated ==
    (fn = "readChipData" /\ pc = "return") =>
        \A k \in DOMAIN lines : Len(Fields(k)) >= ChipFields /\ Passes(Fields(k))

\* C7, amended: readChipData (dictionary mode) fails for every line that has fewer than
\* two fields, and for every line whose index (field 0), last field, fields 1..3 or fields
\* 4..6, as far as the line has them, are not numbers (ints, floats for 4..6); it returns
\* dictionaries exactly when no line is of that kind, so a shorter line fails only if one
\* of the fields it has at those positions is not a number (as a row letter is), and a
\* field after position 6 other than the last is never read.
C7_ChipParseErrors ==
    fn = "readChipData" =>
        /\ pc = "return" => \A k \in DOMAIN lines : Passes(Fields(k))
        /\ pc = "raise" => ~Passes(Fields(i + 1))
        /\ pc = "return" =>
              \A k \in DOMAIN lines :
                 Len(Fields(k)) < ChipFields => IsFloat(ChipRow(k))

\* readChipData failed on a line shorter than a chip row, after a line it accepted
C7_Witness ==
    /\ fn = "readChipData"
    /\ pc = "raise"
    /\ Len(lines) = 2
    /\ Passes(Fields(1))
    /\ Len(Fields(2)) < ChipFields
    /\ Len(Fields(2)) >= 2

-----------------------------------------------------------------------------
(* Properties of the colour dictionaries of the chip table parser *)

\* the layout of a chip row with a field between B and l
DocumentedLayout == <<"index", "R", "G", "B", "unused", "l", "a", "b", "row", "hue">>

DocumentedFields == Len(DocumentedLayout)

\* the k-th line is the last one of its index: its entries are the ones that stay
LastOfIndex(k) ==
    \A m \in DOMAIN lines : m > k => IntOf(ChipIndex(m)) # IntOf(ChipIndex(k))

\* the fields at the 1-based positions a, a+1, a+2 of the k-th line, as floats
FloatsAt(k, a) == <<FloatOf(Fields(k)[a]), FloatOf(Fields(k)[a + 1]), FloatOf(Fields(k)[a + 2])>>

\* the fields R, G, B of the k-th line, as ints
RgbOf(k) == <<IntOf(Fields(k)[2]), IntOf(Fields(k)[3]), IntOf(Fields(k)[4])>>

\* C11, as stated: for a chip row of the layout index, R, G, B, (unused), l, a, b, row
\* letter, hue, chip_to_clab holds the row's l, a and b (the sixth, seventh and eighth
\* field) and chip_to_rgb holds its R, G and B.
C11_AsStated ==
    (fn = "readChipData" /\ pc = "return") =>
        \A k \in DOMAIN lines :
            (Len(Fields(k)) = DocumentedFields /\ LastOfIndex(k)) =>
                /\ Get(chip_to_clab, IntOf(ChipIndex(k))) = FloatsAt(k, 6)
                /\ Get(chip_to_rgb, IntOf(ChipIndex(k))) = RgbOf(k)

\* C11, amended: chip_to_clab holds for a chip the fields 4, 5 and 6 (counted from 0) of
\* its row, and chip_to_rgb the fields 1, 2 and 3. For a row of the layout index, R, G, B,
\* l, a, b, row letter, hue (the nine columns of the DataFrame) that is (l, a, b) and
\* (R, G, B); for a row of the layout index, R, G, B, (unused), l, a, b, row letter, hue
\* it is (unused, l, a) and (R, G, B): the b of such a row is stored nowhere.
C11_ClabFields ==
    (fn = "readChipData" /\ pc = "return") =>
        \A k \in DOMAIN lines :
            (Len(Fields(k)) \in {ChipFields, DocumentedFields} /\ LastOfIndex(k)) =>
                /\ Get(chip_to_clab, IntOf(ChipIndex(k))) = FloatsAt(k, 5)
                /\ Get(chip_to_rgb, IntOf(ChipIndex(k))) = RgbOf(k)

\* readChipData returned the dictionaries of a row with an unused field 0, l = 53.2,
\* a = 80.1 and b = 67.2, and of a row of nine fields
C11_Witness ==
    /\ fn = "readChipData"
    /\ pc = "return"
    /\ Len(lines) = 2
    /\ Len(Fields(1)) = DocumentedFields
    /\ Len(Fields(2)) = ChipFields
    /\ Fields(1)[8] = <<"6", "7", ".", "2">>
    /\ Get(chip_to_clab, 1) = <<<<0, 0>>, <<532, 1>>, <<801, 1>>>>
    /\ Get(chip_to_rgb, 1) = <<255, 0, 0>>
    /\ Get(chip_to_clab, 3) = <<<<50, 0>>, <<15, 1>>, <<-25, 1>>>>

-----------------------------------------------------------------------------
(* Properties of the table builders and the dual-mode loaders *)

\* the rows of the flat table of a speaker mapping: one per (language, speaker) record
SpeakerRowsExpected ==
    Concat([n \in DOMAIN speakerData |->
              [m \in DOMAIN speakerData[n][2] |->
                 [Language |-> speakerData[n][1],
                  Speaker |-> speakerData[n][2][m][1],
                  Age |-> speakerData[n][2][m][2].val[1],
                  Gender |-> speakerData[n][2][m][2].val[2]]]])

\* C6: for every speaker mapping produced by readSpeakerData, loadSpeakerTable returns a
\* flat table with exactly one row per (language, speaker) record, carrying that record's
\* Language, Speaker, Age and Gender.
C6_SpeakerTable ==
    fn = "loadSpeakerTable" =>
        /\ pc = "return"
        /\ speakerTable = SpeakerRowsExpected

\* C9: get_chip_to_rgb and get_chip_to_munsell, given an argument that is neither a str
\* nor a DataFrame, print a warning and return an empty mapping; they do not fail.
C9_NoDataWarning ==
    (fn \in DualLoaders /\ arg.type \notin {"str", "DataFrame"} /\ pc # "call") =>
        /\ pc = "return"
        /\ err = NoError
        /\ warned
        /\ chip_to_rgb = <<>>
        /\ chip_to_munsell = <<>>

\* get_chip_to_munsell returned for an argument that is None
C9_Witness ==
    /\ fn = "get_chip_to_munsell"
    /\ arg.type = "NoneType"
    /\ pc = "return"
    /\ warned

-----------------------------------------------------------------------------
(* Properties of makeModeMap *)

\* how often t occurs in a list
Occurrences(aList, t) == Cardinality({n \in DOMAIN aList : aList[n] = t})

\* where t occurs first in a list
FirstAt(aList, t) == CHOOSE n \in DOMAIN aList :
                        aList[n] = t /\ \A m \in 1..(n - 1) : aList[m] # t

\* the terms the speakers gave a chip, the speakers taken in the mapping's order
TermsGiven(chip) ==
    LET named == SelectSeq(ValueList(langData), LAMBDA d : HasKey(d, chip))
    IN  [n \in DOMAIN named |-> Get(named[n], chip)]

\* the chips that one speaker at least has named
ChipsNamed == UNION {KeySet(langData[n][2]) : n \in DOMAIN langData}

\* C4: for every chip, makeModeMap returns a term that occurs most often in the chip's
\* accumulated term list (speakers in mapping order), and among the terms that occur most
\* often the one that occurs first in the list (not the lexicographically smallest).
C4_ModeFirstOccurrence ==
    (fn = "makeModeMap" /\ pc = "return") =>
        \A c \in ChipsNamed :
            LET given == TermsGiven(c)
                mode == Get(modeMap, c)
            IN  /\ Get(allTerms, c) = given
                /\ \E n \in DOMAIN given : given[n] = mode
                /\ \A n \in DOMAIN given :
                      /\ Occurrences(given, given[n]) <= Occurrences(given, mode)
                      /\ Occurrences(given, given[n]) = Occurrences(given, mode)
                            => FirstAt(given, mode) <= FirstAt(given, given[n])

\* makeModeMap returned "re" for a chip that "re" and "bu" were given to equally often,
\* "re" first
C4_Witness ==
    /\ fn = "makeModeMap"
    /\ pc = "return"
    /\ firstMap = <<>>
    /\ Len(langData) >= 3
    /\ HasKey(allTerms, 1)
    /\ Get(allTerms, 1) = << <<"r", "e">>, <<"b", "u">> >>
    /\ HasKey(allTerms, 2)
    /\ Len(Get(allTerms, 2)) = 3
    /\ Get(modeMap, 1) = <<"r", "e">>

\* C5: mode aggregation is idempotent: makeModeMap, called on the data of one speaker
\* whose chip->term map is a mode map M that makeModeMap produced, returns a mapping
\* equal to M (same chips, same terms).
C5_ModeIdempotent ==
    (fn = "makeModeMap" /\ pc = "return" /\ firstMap # <<>>) =>
        /\ KeySet(modeMap) = KeySet(firstMap[1])
        /\ \A c \in KeySet(modeMap) : Get(modeMap, c) = Get(firstMap[1], c)

\* makeModeMap returned for the fed-back mode map of two chips of a language whose
\* speakers disagreed
C5_Witness ==
    /\ fn = "makeModeMap"
    /\ pc = "return"
    /\ firstMap # <<>>
    /\ Len(firstMap[1]) = 2
    /\ Len(modeMap) = 2
    /\ \E a, b \in DOMAIN arg.naming[1][2] :
          \E c \in Chips :
             /\ HasKey(arg.naming[1][2][a][2], c)
             /\ HasKey(arg.naming[1][2][b][2], c)
             /\ Get(arg.naming[1][2][a][2], c) # Get(arg.naming[1][2][b][2], c)

\* C10: the keys of makeModeMap's output are exactly the chips that one speaker at least
\* of the selected language has named: a chip nobody named is absent, never defaulted,
\* and every chip somebody named is present.
C10_ModeMapKeys ==
    (fn = "makeModeMap" /\ pc = "return") =>
        /\ KeySet(modeMap) = ChipsNamed
        /\ Len(modeMap) = Cardinality(ChipsNamed)

\* makeModeMap returned for a language of two speakers, none of whom named chip 1: the
\* mode map holds chip 2 alone
C10_Witness ==
    /\ fn = "makeModeMap"
    /\ pc = "return"
    /\ firstMap = <<>>
    /\ arg.lang.given
    /\ Len(langData) = 2
    /\ KeySet(langData[1][2]) = {2}
    /\ KeySet(langData[2][2]) = {2}
    /\ KeySet(modeMap) = {2}

-----------------------------------------------------------------------------
(* Properties of _grid2img *)

\* the entries of chip_to_munsell that _grid2img reads: the chips 1..len(grid)
Painted == {n \in DOMAIN chip_to_munsell : chip_to_munsell[n][1] \in 1..Len(grid_colors)}

\* the place of a coordinate in the image: the index of its row letter in A..J, and
\* hue + 1 for a hue above 0, 0 for the hue 0
PlaceOf(coord) ==
    <<CHOOSE r \in 0..9 : ROWS[r + 1] = coord[1], IF coord[2] > 0 THEN coord[2] + 1 ELSE 0>>

\* _grid2img returned the image of a grid whose chips have hues from 0 on
ImageReturned ==
    /\ fn = "_grid2img"
    /\ pc = "return"
    /\ \A n \in Painted : chip_to_munsell[n][2][2] >= 0

\* C12: _grid2img returns an image of 10 rows and 42 columns that is white (1, 1, 1)
\* everywhere except that the grid colour of each chip 1..len(grid) with the coordinate
\* (row letter, hue) is at (index of the row letter in A..J, hue + 1) for a hue above 0 and
\* at (index of the row letter, 0) for the hue 0 (the last of the chips that share a
\* coordinate is the one that shows); for every hue of 0..40 that place is inside the image,
\* and chips with distinct coordinates have distinct places.
C12_GridImage ==
    ImageReturned =>
        /\ DOMAIN img = (0..9) \X (0..41)
        /\ \A cell \in DOMAIN img :
              (\A n \in Painted : PlaceOf(chip_to_munsell[n][2]) # cell) =>
                  img[cell] = <<Ratio(1, 1), Ratio(1, 1), Ratio(1, 1)>>
        /\ \A n \in Painted :
              (\A m \in Painted :
                  chip_to_munsell[m][1] > chip_to_munsell[n][1] =>
                      chip_to_munsell[m][2] # chip_to_munsell[n][2]) =>
                  img[PlaceOf(chip_to_munsell[n][2])] = grid_colors[chip_to_munsell[n][1]]
        /\ \A n, m \in Painted :
              (chip_to_munsell[n][2][2] \in 0..40 /\ chip_to_munsell[m][2][2] \in 0..40) =>
                  /\ PlaceOf(chip_to_munsell[n][2]) \in DOMAIN img
                  /\ chip_to_munsell[n][2] # chip_to_munsell[m][2] =>
                        PlaceOf(chip_to_munsell[n][2]) # PlaceOf(chip_to_munsell[m][2])

\* _grid2img returned the image of the whole chart: chip 1 (A0) is at (0, 0), chip 42 (B40)
\* at (1, 41), chip 43 (C0) at (2, 0), chip 330 (J0) at (9, 0), and column 1 is white
C12_Witness ==
    /\ fn = "_grid2img"
    /\ pc = "return"
    /\ chip_to_munsell = FullMunsell
    /\ Len(grid_colors) = GridRows
    /\ Get(chip_to_munsell, 42) = << <<"B">>, 40>>
    /\ img[<<0, 0>>] = grid_colors[1]
    /\ img[<<1, 41>>] = grid_colors[42]
    /\ img[<<2, 0>>] = grid_colors[43]
    /\ img[<<9, 0>>] = grid_colors[330]
    /\ img[<<1, 1>>] = <<Ratio(1, 1), Ratio(1, 1), Ratio(1, 1)>>
    /\ img[<<1, 2>>] # img[<<1, 3>>]

-----------------------------------------------------------------------------
(* Properties of naming2grid *)

\* the terms of the dictionary given to naming2grid
TermsOfGrid == {gridData[n][2] : n \in DOMAIN gridData}

\* the chips that the dictionary assigns the term, looked up by their numbers
ChipsOfTerm(t) == SelectSeq(KeyList(gridData), LAMBDA c : Get(gridData, c) = t)

\* the elementwise mean of the RGB values of the chips assigned the term, over 255
ColorOfTerm(t) ==
    MeanColor([n \in DOMAIN ChipsOfTerm(t) |-> Get(chip_to_rgb, ChipsOfTerm(t)[n])])

\* the dictionary iterates in the order of the chips 1..N
Ascending == \A n \in DOMAIN gridData : gridData[n][1] = n

\* the keys of the two dictionaries are the chips 1..N, for an N that the array has rows
\* for
SameChips ==
    /\ Len(gridData) <= GridRows
    /\ KeySet(gridData) = 1..Len(gridData)
    /\ KeySet(chip_to_rgb) = 1..Len(gridData)

\* row chip - 1 of the array holds, for every chip, the mean colour of the chips that have
\* the chip's term, and the rows after the last chip are zero
RowsHoldTermColors ==
    /\ Len(grid_colors) = 330
    /\ \A t \in TermsOfGrid :
          LET color == ColorOfTerm(t) IN
          \A n \in DOMAIN gridData :
              gridData[n][2] = t => grid_colors[gridData[n][1]] = color
    /\ \A r \in (Len(gridData) + 1)..330 : grid_colors[r] = <<<<0, 1>>, <<0, 1>>, <<0, 1>>>>

\* C13: when the chip -> term dictionary iterates in the order of the chips 1..N and the
\* keys of chip_to_rgb are the chips 1..N, naming2grid returns an array of 330 rows of
\* three channels in which row chip - 1 holds, for each chip 1..N, the elementwise mean of
\* the RGB values of exactly the chips assigned the chip's term, divided by 255, and the
\* rows N+1..330 are zero.
C13_GridRows ==
    (fn = "naming2grid" /\ Ascending /\ SameChips) =>
        /\ pc # "raise"
        /\ pc = "return" => RowsHoldTermColors

\* naming2grid returned the grid of {1: 'bu', 2: 're', 3: 'bu'} for chips of the RGB
\* values (64, 3, 255), (128, 6, 254) and (192, 9, 254): the rows of the chips 1 and 3 hold
\* (128/255, 6/255, 509/510), the row of chip 2 holds (128/255, 6/255, 254/255)
C13_Witness ==
    /\ fn = "naming2grid"
    /\ pc = "return"
    /\ gridData = << <<1, <<"b", "u">> >>, <<2, <<"r", "e">> >>, <<3, <<"b", "u">> >> >>
    /\ ValueList(chip_to_rgb) = << <<64, 3, 255>>, <<128, 6, 254>>, <<192, 9, 254>> >>
    /\ grid_colors[1] = <<<<128, 255>>, <<2, 85>>, <<509, 510>>>>
    /\ grid_colors[2] = <<<<128, 255>>, <<2, 85>>, <<254, 255>>>>
    /\ grid_colors[3] = grid_colors[1]
    /\ grid_colors[4] = <<<<0, 1>>, <<0, 1>>, <<0, 1>>>>

\* C14: naming2grid returns a grid only if the keys of the chip -> term dictionary and
\* the keys of chip_to_rgb are both exactly the chips 1..N, for one N of at most 330;
\* for any other pair of dictionaries (a chip of one that the other lacks, more than 330
\* chips) the call fails with a lookup failure (KeyError, IndexError) and returns no grid.
C14_LookupFailure ==
    fn = "naming2grid" =>
        /\ pc = "return" => SameChips
        /\ pc = "raise" => /\ ~SameChips
                           /\ err \in {NoKey, OutOfBounds}
                           /\ grid_colors = <<>>
        /\ (pc = "terms" /\ TermsOfGrid \subseteq KeySet(term_colors) /\ ~SameChips) =>
              GridOf(gridData, chip_to_rgb, term_colors).err # NoError

\* naming2grid failed for a chip -> term dictionary of the chips 1, 2 and a chip_to_rgb
\* of the chips 1, 2, 3: every position of the dictionary has its RGB values, chip 3 has
\* no term
C14_Witness ==
    /\ fn = "naming2grid"
    /\ pc = "raise"
    /\ err = NoKey
    /\ KeyList(gridData) = <<1, 2>>
    /\ KeyList(chip_to_rgb) = <<1, 2, 3>>
    /\ TermsOfGrid \subseteq KeySet(term_colors)

\* naming2grid returned the grid of a mode map of a file read by readNamingData in which
\* every chip 1..N is named, for a chip_to_rgb of the chips 1..N
PipelineReturned ==
    /\ fn = "naming2grid"
    /\ pc = "return"
    /\ lines # <<>>
    /\ gridData = modeMap
    /\ SameChips

\* C15: in the pipeline readNamingData -> makeModeMap -> naming2grid, for the naming data
\* of a language in which every chip 1..N is named by a speaker (in any order, not every
\* chip by every speaker), the grid row of each chip holds the mean RGB of exactly the
\* chips that share the chip's modal term.
C15_PipelineOrder == PipelineReturned => RowsHoldTermColors

=============================================================================
